---- MODULE Spec2Model ----
(***************************************************************************)
(* A model of the command-line parser of ts-command-line:                  *)
(* CommandLineParser.addAction / execute / executeWithoutErrorHandling,    *)
(* the CommandLineParserExitError control-flow signal and the promise      *)
(* chain of execute(); of Utilities.executeCommand and                     *)
(* Utilities.createFolderWithRetry; and of ApiEnum.addMember.              *)
(*                                                                         *)
(* One step of the model is one run-to-completion piece of JavaScript: the *)
(* synchronous part of a call, the settlement of the action body's         *)
(* promise, or one promise reaction (microtask) of execute().              *)
(***************************************************************************)
EXTENDS Integers, Sequences, FiniteSets, TLC

----------------------------------------------------------------------------
(* Bounds of the model *)

MaxCalls == 2      \* calls of an execution entry point on the one parser
MaxActions == 2    \* addAction calls
MaxArgs == 2       \* length of an explicit argument vector

----------------------------------------------------------------------------
(* Values *)

\* Strings of the program are sequences of one-character strings, so that
\* trim() and emptiness tests are computed, not assumed.
Trim(s) ==
  LET isWs(c) == c = " "
      first == IF \E i \in 1..Len(s) : ~isWs(s[i])
               THEN CHOOSE i \in 1..Len(s) : ~isWs(s[i]) /\ \A j \in 1..(i-1) : isWs(s[j])
               ELSE Len(s) + 1
      last  == IF \E i \in 1..Len(s) : ~isWs(s[i])
               THEN CHOOSE i \in 1..Len(s) : ~isWs(s[i]) /\ \A j \in (i+1)..Len(s) : isWs(s[j])
               ELSE Len(s)
  IN  SubSeq(s, first, last)

EmptyMessage == <<>>
SomeMessage == <<"m">>
PaddedMessage == <<"m", " ">>
AlreadyCalledMessage == <<"already called">>
UnrecognizedActionMessage == <<"Unrecognized action">>
UnknownErrorMessage == <<"An unknown error occurred">>
GrammarMessage == <<"usage error">>
TypeErrorMessage == <<"Cannot read property 'message'">>

\* A raised value.  type "exit" is a CommandLineParserExitError, "error" any
\* other Error, "nullish" a raised undefined or null.
Fault(type, exitCode, message) ==
  [type |-> type, exitCode |-> exitCode, message |-> message]

NoFault == Fault("none", 0, EmptyMessage)

\* new CommandLineParserExitError(exitCode, message)
CommandLineParserExitError(exitCode, message) == Fault("exit", exitCode, message)

\* new Error(message)
Error(message) == Fault("error", 0, message)

\* The TypeError of reading a property of undefined or null
TypeError == Fault("error", 0, TypeErrorMessage)

Nullish == Fault("nullish", 0, EmptyMessage)

\* The exit codes a raised exit signal carries in the model: 0 for a
\* successful early exit, 2 for the grammar engine's usage errors
ExitCodes == {0, 2}

\* What an action body may raise
FaultValues ==
  {CommandLineParserExitError(c, m) : c \in ExitCodes, m \in {EmptyMessage, SomeMessage}}
    \cup {Error(m) : m \in {EmptyMessage, PaddedMessage}}
    \cup {Nullish}

\* What the conversion of parsed values may raise
ConversionFaults == {Error(PaddedMessage)}

\* JavaScript truthiness of a string and of process.exitCode (a set holding
\* the code, empty when the code is undefined)
Truthy(s) == s # EmptyMessage
Unset == {}
ExitCodeFalsy(ec) == ec = Unset \/ ec = {0}

----------------------------------------------------------------------------
(* The grammar engine *)

ActionNames == {"build", "greet"}
HelpToken == "-h"
NameOption == "--name=Ada"
Tokens == ActionNames \cup {HelpToken, NameOption}

\* The parameters an action of this name defines, and those it requires
ActionOptions(name) == IF name = "greet" THEN {NameOption} ELSE {}
RequiredOptions(name) == IF name = "greet" THEN {NameOption} ELSE {}

RECURSIVE SeqsUpTo(_, _)
SeqsUpTo(S, n) ==
  IF n = 0 THEN {<<>>}
  ELSE LET shorter == SeqsUpTo(S, n - 1)
       IN  shorter \cup {Append(s, t) : s \in {x \in shorter : Len(x) = n - 1}, t \in S}

ArgVectors == SeqsUpTo(Tokens, MaxArgs)

\* CustomArgumentParser.exit: raises instead of ending the process
exit(status, message) == CommandLineParserExitError(status, message)

\* CustomArgumentParser.error: an exit signal passes through, anything else
\* becomes the engine's usage error, which ends in exit(2, message)
error(err) == IF err.type = "exit" THEN err ELSE exit(2, err.message)

\* Outcome of a grammar run: parsed data, or a raised exit signal
\* (help: whether the engine printed help before raising)
Accepted(name, values) ==
  [ok |-> TRUE, action |-> name, values |-> values, help |-> FALSE, err |-> NoFault]
Raised(f, help) ==
  [ok |-> FALSE, action |-> "", values |-> {}, help |-> help, err |-> f]

HelpRequest == Raised(exit(0, EmptyMessage), TRUE)
GrammarError == Raised(error(Error(GrammarMessage)), FALSE)

RECURSIVE ParseActionArgs(_, _, _)
ParseActionArgs(name, rest, seen) ==
  IF rest = <<>>
  THEN IF RequiredOptions(name) \subseteq seen THEN Accepted(name, seen) ELSE GrammarError
  ELSE IF Head(rest) = HelpToken THEN HelpRequest
  ELSE IF Head(rest) \in ActionOptions(name)
  THEN ParseActionArgs(name, Tail(rest), seen \cup {Head(rest)})
  ELSE GrammarError

\* argumentParser.parseArgs(args), the sub-command choices being the names
\* registered with the sub-parser
parseArgs(args, choices) ==
  IF args = <<>> THEN GrammarError
  ELSE IF Head(args) = HelpToken THEN HelpRequest
  ELSE IF Head(args) \in choices THEN ParseActionArgs(Head(args), Tail(args), {})
  ELSE GrammarError

----------------------------------------------------------------------------
(* State *)

VARIABLES
  actions,          \* _actions: the registered actions in insertion order; an
                    \* action instance is its position, the entry is its actionName
  actionsByName,    \* _actionsByName: name -> set holding the instance, or {}
  executed,         \* _executed
  selectedAction,   \* selectedAction: set holding the instance, {} when undefined
  parserData,       \* the parser's own parsed values: {} until populated
  actionData,       \* per instance, the parsed values injected into it
  processExitCode,  \* process.exitCode: set holding the code, {} when undefined
  processArgv,      \* process.argv
  stdout,           \* lines written with console.log / printHelp
  stderr,           \* lines written with console.error
  calls,            \* the calls made so far, with the promises they returned
  queue,            \* reactions of execute() waiting to run, first in first out
  trace,            \* the steps of the framework in the order they happened
  lookup,           \* the last getAction / tryGetAction call and what it gave
  command,          \* the running Utilities.executeCommand call
  folder,           \* the running Utilities.createFolderWithRetry call
  members,          \* the members of one ApiEnum, in insertion order
  added             \* the last ApiEnum.addMember call and how it ended

parserVars == <<actions, actionsByName, executed, selectedAction, parserData, actionData,
                processExitCode, processArgv, stdout, stderr, calls, queue, trace>>
lookupVars == <<lookup>>
utilityVars == <<command, folder>>
enumVars == <<members, added>>

vars == <<parserVars, lookupVars, utilityVars, enumVars>>

Instances == 1..MaxActions

HelpText == <<"usage">>
Line(color, text) == [color |-> color, text |-> text]

\* The sub-command names the sub-parser knows: _buildParser registers one per
\* added action
Choices == {actions[i] : i \in 1..Len(actions)}

Event(ev, inst) == [ev |-> ev, inst |-> inst]

\* No lookup made yet; no call of the utilities running; no member added
NoLookup == [op |-> "none", name |-> "", result |-> {}, raised |-> FALSE]
NoCommand == [pc |-> "idle", command |-> <<>>, spawned |-> <<>>, errors |-> <<>>,
              raised |-> "none"]
NoFolder ==
  [pc |-> "idle", now |-> 0, startTime |-> 0, looped |-> FALSE, failed |-> 0,
   succeeded |-> FALSE, elapsed |-> 0, log |-> <<>>]
NoAdded == [kind |-> "", name |-> "", raised |-> FALSE]

Init ==
  /\ lookup = NoLookup
  /\ command = NoCommand
  /\ folder = NoFolder
  /\ members = <<>>
  /\ added = NoAdded
  /\ actions = <<>>
  /\ actionsByName = [n \in ActionNames |-> {}]
  /\ executed = FALSE
  /\ selectedAction = {}
  /\ parserData = {}
  /\ actionData = [i \in Instances |-> {}]
  /\ processExitCode \in {Unset, {0}, {3}}
  /\ processArgv \in {<<"node", "script">>, <<"node", "script", "build">>}
  /\ stdout = <<>>
  /\ stderr = <<>>
  /\ calls = <<>>
  /\ queue = <<>>
  /\ trace = <<>>

----------------------------------------------------------------------------
(* addAction *)

AddAction(name) ==
  /\ Len(actions) < MaxActions
  /\ actions' = Append(actions, name)
  /\ actionsByName' = [actionsByName EXCEPT ![name] = {Len(actions) + 1}]
  /\ UNCHANGED <<executed, selectedAction, parserData, actionData, processExitCode,
                 processArgv, stdout, stderr, calls, queue, trace>>

----------------------------------------------------------------------------
(* executeWithoutErrorHandling: the synchronous part *)

\* A fault injected into one call: where the code outside the parser raises
\* (the conversion of the parser's own parsed values, the conversion of the
\* action's parsed values, the action body before it returns its promise),
\* and what it raises there
NoPlan == [at |-> "none", f |-> NoFault]

FaultPlans ==
  {NoPlan}
    \cup {[at |-> a, f |-> f] : a \in {"globals", "inject"}, f \in ConversionFaults}
    \cup {[at |-> "body", f |-> f] : f \in FaultValues}

\* The guard left out: every call is let through
AlreadyExecuted_Never == FALSE

\* if (this._executed)
AlreadyExecuted == executed

\* slice(1) for slice(2): the script name is taken for an argument
DefaultArgs_SliceOne(args, given) ==
  IF given THEN args ELSE SubSeq(processArgv, 2, Len(processArgv))

\* if (!args) args = process.argv.slice(2)
DefaultArgs(args, given) ==
  IF given THEN args ELSE SubSeq(processArgv, 3, Len(processArgv))

\* The name comparison left out: the first registered action is taken
FindAction_First(name) == IF Len(actions) > 0 THEN {1} ELSE {}

\* for (const action of this._actions) if (action.actionName === data.action):
\* the first instance of that name in insertion order, as a set
FindAction(name) ==
  LET matches == {i \in 1..Len(actions) : actions[i] = name}
  IN  {i \in matches : \A j \in matches : i <= j}

\* The exit code test left out: every exit signal counts as a success
IsSuccessfulExit_AnyExit(err) == err.type = "exit"

\* catch (err): if (err instanceof CommandLineParserExitError) if (!err.exitCode)
IsSuccessfulExit(err) == err.type = "exit" /\ err.exitCode = 0

\* The state of the try block: the fields it has assigned, the lines it has
\* printed, its steps, and how it ended: "raised", "resolved" (the returned
\* Promise.resolve()) or "body" (the promise returned by onExecute()).
Started ==
  [executed |-> executed, selectedAction |-> selectedAction, parserData |-> parserData,
   actionData |-> actionData, out |-> <<>>, events |-> <<>>,
   ended |-> "raised", raised |-> NoFault]

Raise(t, f) == [t EXCEPT !.ended = "raised", !.raised = f]
Step(t, ev, inst) == [t EXCEPT !.events = Append(@, Event(ev, inst))]

\* onExecute(): return this.selectedAction!._execute()
onExecute(t, plan) ==
  LET inst == CHOOSE i \in t.selectedAction : TRUE
      invoked == Step(t, "body", inst)
  IN  IF plan.at = "body" THEN Raise(invoked, plan.f)
      ELSE [invoked EXCEPT !.ended = "body"]

\* action._processParsedData(data) left out of the loop
Dispatch_NoInject(t, data, plan) ==
  LET found == FindAction(data.action)
      inst == CHOOSE i \in found : TRUE
      selected == [Step(t, "select", inst) EXCEPT !.selectedAction = found]
      after == IF found = {} THEN t ELSE selected
  IN  IF after.selectedAction = {} THEN Raise(after, Error(UnrecognizedActionMessage))
      ELSE onExecute(after, plan)

\* Lines 213-224: select the action, inject its parsed values, run it
Dispatch(t, data, plan) ==
  LET found == FindAction(data.action)
      inst == CHOOSE i \in found : TRUE
      selected == [Step(t, "select", inst) EXCEPT !.selectedAction = found]
      injected == [Step(selected, "inject", inst) EXCEPT !.actionData[inst] = {data}]
      after == IF found = {} THEN t ELSE injected
  IN  IF found # {} /\ plan.at = "inject" THEN Raise(selected, plan.f)
      ELSE IF after.selectedAction = {} THEN Raise(after, Error(UnrecognizedActionMessage))
      ELSE onExecute(after, plan)

\* Lines 194-224: the try block
TryBlock(args, given, plan) ==
  IF AlreadyExecuted THEN Raise(Started, Error(AlreadyCalledMessage))
  ELSE
    LET marked == [Started EXCEPT !.executed = TRUE]
        argv == DefaultArgs(args, given)
        data == parseArgs(argv, Choices)
        parsed == Step(marked, "parseArgs", 0)
        populated == [Step(parsed, "globals", 0) EXCEPT !.parserData = {data}]
    IN  IF Len(argv) = 0
        THEN [marked EXCEPT !.out = <<Line("none", HelpText)>>, !.ended = "resolved"]
        ELSE IF ~data.ok
        THEN Raise([parsed EXCEPT !.out = IF data.help THEN <<Line("none", HelpText)>>
                                                        ELSE <<>>],
                   data.err)
        ELSE IF plan.at = "globals" THEN Raise(parsed, plan.f)
        ELSE Dispatch(populated, data, plan)

\* Lines 225-236: the catch block, giving the promise the call returns
CatchBlock(t) ==
  IF t.ended # "raised" THEN t
  ELSE IF IsSuccessfulExit(t.raised)
  THEN [t EXCEPT !.ended = "resolved",
                 !.out = IF Truthy(t.raised.message)
                         THEN Append(@, Line("none", t.raised.message)) ELSE @]
  ELSE [t EXCEPT !.ended = "rejected"]

executeWithoutErrorHandlingSync(args, given, plan) == CatchBlock(TryBlock(args, given, plan))

\* The record of a call: the promise executeWithoutErrorHandling returned
\* (inner) and, for execute(), the promise execute() returned (outer).  The
\* other fields keep what the call was given and what it did: its argument
\* (none when the guard stopped the call before reading it), the fault raised
\* in its chain, the lines it printed, and process.exitCode when the call was
\* made and before and after its reaction.
NewCall(kind, args, given, t) ==
  [kind |-> kind,
   passed |-> ~AlreadyExecuted,
   given |-> IF AlreadyExecuted THEN FALSE ELSE given,
   args |-> IF AlreadyExecuted THEN <<>> ELSE args,
   fault |-> t.raised,
   inner |-> IF t.ended = "body" THEN "pending" ELSE t.ended,
   innerErr |-> IF t.ended = "rejected" THEN t.raised ELSE NoFault,
   outer |-> IF kind = "execute" THEN "pending" ELSE "none",
   outerErr |-> NoFault,
   outLines |-> t.out,
   errLines |-> <<>>,
   exitAtCall |-> processExitCode,
   exitBefore |-> Unset,
   exitAfter |-> Unset,
   wroteExit |-> FALSE]

Enter(kind, args, given, plan) ==
  /\ Len(calls) < MaxCalls
  /\ LET t == executeWithoutErrorHandlingSync(args, given, plan)
         c == NewCall(kind, args, given, t)
     IN  /\ executed' = t.executed
         /\ selectedAction' = t.selectedAction
         /\ parserData' = t.parserData
         /\ actionData' = t.actionData
         /\ stdout' = stdout \o t.out
         /\ trace' = trace \o t.events
         /\ calls' = Append(calls, c)
         /\ queue' = IF kind = "execute" /\ c.inner # "pending"
                     THEN Append(queue, Len(calls) + 1) ELSE queue
  /\ UNCHANGED <<actions, actionsByName, processExitCode, processArgv, stderr>>

\* execute(args): the call itself; its reactions run later
Execute(args, given, plan) == Enter("execute", args, given, plan)

ExecuteWithoutErrorHandling(args, given, plan) ==
  Enter("executeWithoutErrorHandling", args, given, plan)

----------------------------------------------------------------------------
(* The action body's promise *)

Settle(i, how, f) ==
  /\ calls' = [calls EXCEPT ![i].inner = how, ![i].innerErr = f, ![i].fault = f]
  /\ queue' = IF calls[i].kind = "execute" THEN Append(queue, i) ELSE queue
  /\ UNCHANGED <<actions, actionsByName, executed, selectedAction, parserData, actionData,
                 processExitCode, processArgv, stdout, stderr, trace>>

BodyResolves ==
  \E i \in 1..Len(calls) : calls[i].inner = "pending" /\ Settle(i, "resolved", NoFault)

BodyRejects(f) ==
  \E i \in 1..Len(calls) : calls[i].inner = "pending" /\ Settle(i, "rejected", f)

----------------------------------------------------------------------------
(* execute(): the reactions .then(() => true).catch((err) => ...) *)

\* The test left out: a code already set is overwritten
SetExitCode_Overwrite(ec, code) == {code}

\* if (!process.exitCode) process.exitCode = code
SetExitCode(ec, code) == IF ExitCodeFalsy(ec) THEN {code} ELSE ec

\* (err.message || 'An unknown error occurred').trim()
ErrorMessage(err) ==
  Trim(IF Truthy(err.message) THEN err.message ELSE UnknownErrorMessage)

\* Lines 167-185: what the rejection handler does with err; thrown is the
\* fault the handler itself raises, NoFault when it returns false
Handler(err, ec) ==
  IF err.type = "exit"
  THEN [lines |-> IF Truthy(err.message) THEN <<Line("none", err.message)>> ELSE <<>>,
        exitCode |-> SetExitCode(ec, err.exitCode),
        assigned |-> ExitCodeFalsy(ec),
        thrown |-> NoFault]
  ELSE IF err.type = "nullish"
  THEN [lines |-> <<>>, exitCode |-> ec, assigned |-> FALSE, thrown |-> TypeError]
  ELSE [lines |-> <<Line("red", <<"Error: ">> \o ErrorMessage(err))>>,
        exitCode |-> SetExitCode(ec, 1),
        assigned |-> ExitCodeFalsy(ec),
        thrown |-> NoFault]

\* The success callback made to report success in the exit code
ThenExitCode_Zero(ec) == {0}

\* Lines 165-167: the success callback returns true and assigns nothing
ThenExitCode(ec) == ec

ExecuteThen ==
  /\ queue # <<>>
  /\ calls[Head(queue)].inner = "resolved"
  /\ processExitCode' = ThenExitCode(processExitCode)
  /\ calls' = [calls EXCEPT ![Head(queue)].outer = "true",
                            ![Head(queue)].exitBefore = processExitCode,
                            ![Head(queue)].exitAfter = ThenExitCode(processExitCode)]
  /\ queue' = Tail(queue)
  /\ UNCHANGED <<actions, actionsByName, executed, selectedAction, parserData, actionData,
                 processArgv, stdout, stderr, trace>>

ExecuteCatch ==
  /\ queue # <<>>
  /\ calls[Head(queue)].inner = "rejected"
  /\ LET i == Head(queue)
         h == Handler(calls[i].innerErr, processExitCode)
     IN  /\ stderr' = stderr \o h.lines
         /\ processExitCode' = h.exitCode
         /\ calls' = [calls EXCEPT
                        ![i].outer = IF h.thrown = NoFault THEN "false" ELSE "rejected",
                        ![i].outerErr = h.thrown,
                        ![i].exitBefore = processExitCode,
                        ![i].exitAfter = h.exitCode,
                        ![i].wroteExit = h.assigned,
                        ![i].errLines = h.lines]
  /\ queue' = Tail(queue)
  /\ UNCHANGED <<actions, actionsByName, executed, selectedAction, parserData, actionData,
                 processArgv, stdout, trace>>

----------------------------------------------------------------------------

\* The argument of a call: an explicit vector, or none
Input(given, args) == [given |-> given, args |-> args]
Inputs == {Input(TRUE, a) : a \in ArgVectors} \cup {Input(FALSE, <<>>)}

\* The inputs that can make a difference in the current state.  A call that
\* the guard stops raises before it reads its argument (line 194 precedes
\* line 201), so the vectors of at most one token stand for all of them; and a
\* fault is planned only where the call gets as far as the conversions.
InputsRead ==
  IF AlreadyExecuted
  THEN {in \in Inputs : Len(in.args) <= 1}
  ELSE Inputs

PlansReached(in) ==
  IF ~AlreadyExecuted /\ parseArgs(DefaultArgs(in.args, in.given), Choices).ok
  THEN FaultPlans
  ELSE {NoPlan}

\* The parser runs on its own: the utilities and the API model are no part of it
ParserOnly == UNCHANGED <<lookupVars, utilityVars, enumVars>>

Next ==
  \/ (\E name \in ActionNames : AddAction(name)) /\ ParserOnly
  \/ (\E in \in InputsRead : \E plan \in PlansReached(in) :
        Execute(in.args, in.given, plan)) /\ ParserOnly
  \/ (\E in \in InputsRead : \E plan \in PlansReached(in) :
        ExecuteWithoutErrorHandling(in.args, in.given, plan)) /\ ParserOnly
  \/ BodyResolves /\ ParserOnly
  \/ (\E f \in FaultValues : BodyRejects(f)) /\ ParserOnly
  \/ ExecuteThen /\ ParserOnly
  \/ ExecuteCatch /\ ParserOnly

Spec == Init /\ [][Next]_vars

----------------------------------------------------------------------------
(* Vocabulary of the properties *)

Calls == 1..Len(calls)
IsExecute(i) == calls[i].kind = "execute"
ExecuteSettled(i) == IsExecute(i) /\ calls[i].outer # "pending"
InnerSettled(i) == calls[i].inner # "pending"

\* The usage fault of the already-executed guard
UsageFault == Error(AlreadyCalledMessage)

\* The argument vector a call that passed the guard worked on, recomputed
\* from what the caller gave
GivenVector(i) ==
  IF calls[i].given THEN calls[i].args ELSE SubSeq(processArgv, 3, Len(processArgv))

Happened(ev) == {k \in 1..Len(trace) : trace[k].ev = ev}
NonzeroExitCode(ec) == ec # Unset /\ ec # {0}

----------------------------------------------------------------------------
(* Error handling of execute() and executeWithoutErrorHandling() *)

\* C1: the promise returned by execute() never rejects: whatever is raised
\* during parsing, dispatch or the action body, it resolves to true or false.
C1_ExecuteNeverRejects ==
  \A i \in Calls : IsExecute(i) => calls[i].outer \in {"pending", "true", "false"}

\* C2: executeWithoutErrorHandling resolves normally whenever the fault raised
\* in the parse/dispatch/body chain is an exit signal with exit code 0, its
\* message if any written to standard output, and rejects with the fault for
\* every other exit signal or ordinary fault.
C2_ZeroExitResolvesOthersReject ==
  \A i \in Calls :
    (InnerSettled(i) /\ calls[i].fault # NoFault) =>
      IF IsSuccessfulExit(calls[i].fault)
      THEN /\ calls[i].inner = "resolved"
           /\ Truthy(calls[i].fault.message) =>
                \E k \in 1..Len(calls[i].outLines) :
                  calls[i].outLines[k] = Line("none", calls[i].fault.message)
      ELSE calls[i].inner = "rejected" /\ calls[i].innerErr = calls[i].fault

\* The exit code C3 expects after a failed execute()
ExpectedExitCode(before, fault) ==
  IF NonzeroExitCode(before) THEN before
  ELSE IF fault.type = "exit" /\ fault.exitCode # 0 THEN {fault.exitCode}
  ELSE {1}

\* C3: when execute() fails, it resolves to false, the message goes to standard
\* error, and the process exit code afterwards is the previous value if a
\* nonzero code was already set, otherwise the signal's own code for a nonzero
\* exit signal and 1 for any other fault.
C3_FailureExitCode ==
  \A i \in Calls :
    (ExecuteSettled(i) /\ calls[i].inner = "rejected") =>
      /\ calls[i].outer = "false"
      /\ calls[i].exitAfter = ExpectedExitCode(calls[i].exitBefore, calls[i].innerErr)
      /\ (calls[i].innerErr.type = "exit" /\ Truthy(calls[i].innerErr.message)) =>
            calls[i].errLines = <<Line("none", calls[i].innerErr.message)>>
      /\ calls[i].innerErr.type # "exit" => Len(calls[i].errLines) = 1

\* C4 as stated: every call after the first raises the usage fault to its
\* caller, whichever entry point is called.
C4_SecondCallRaises ==
  \A i \in Calls :
    i > 1 =>
      IF IsExecute(i)
      THEN ExecuteSettled(i) => (calls[i].outer = "rejected" /\ calls[i].outerErr = UsageFault)
      ELSE calls[i].inner = "rejected" /\ calls[i].innerErr = UsageFault

\* C4 (amended): every call after the first, whatever its arguments and however
\* the first call ended, is stopped by the already-executed guard, which raises
\* the usage fault: executeWithoutErrorHandling returns a promise rejected with
\* it, and execute() reports it as an error line on standard error and resolves
\* to false.
C4_SecondCallHitsGuard ==
  \A i \in Calls :
    i > 1 =>
      /\ ~calls[i].passed
      /\ calls[i].inner = "rejected"
      /\ calls[i].innerErr = UsageFault
      /\ ExecuteSettled(i) =>
           /\ calls[i].outer = "false"
           /\ calls[i].errLines = <<Line("red", <<"Error: ">> \o AlreadyCalledMessage)>>

C4_Witness ==
  /\ Len(calls) >= 2
  /\ calls[1].given /\ calls[1].args = <<>>
  /\ calls[2].kind = "execute" /\ calls[2].outer = "false"

\* C5: under any interleaving of calls (including one made while the first
\* call's action body is suspended) at most one call passes the
\* already-executed guard, the flag stays true from the first call on, and the
\* grammar run, the injection of parsed values and the action body each happen
\* at most once.
C5_SingleExecution ==
  /\ Cardinality({i \in Calls : calls[i].passed}) <= 1
  /\ calls # <<>> => executed
  /\ Cardinality(Happened("parseArgs")) <= 1
  /\ Cardinality(Happened("inject")) <= 1
  /\ Cardinality(Happened("body")) <= 1

C5_Witness ==
  /\ Len(calls) >= 2
  /\ calls[1].inner = "pending"
  /\ Happened("body") # {}

\* C6 as stated: a usage fault from re-executing a used parser propagates as-is
\* and is not translated into a process exit code.
C6_UsageFaultUntranslated ==
  \A i \in Calls :
    (~calls[i].passed /\ (IsExecute(i) => ExecuteSettled(i))) =>
      /\ ~calls[i].wroteExit
      /\ IsExecute(i) => (calls[i].outer = "rejected" /\ calls[i].outerErr = UsageFault)

\* C6 (amended): the usage fault of re-executing a used parser propagates as-is
\* only out of executeWithoutErrorHandling, which rejects with it and leaves the
\* exit code alone; execute() translates it like any other fault: it resolves
\* to false and sets the exit code to 1 unless a nonzero code was already set.
C6_UsageFaultTranslatedByExecute ==
  \A i \in Calls :
    ~calls[i].passed =>
      /\ calls[i].inner = "rejected" /\ calls[i].innerErr = UsageFault
      /\ ~IsExecute(i) => ~calls[i].wroteExit
      /\ ExecuteSettled(i) =>
           /\ calls[i].outer = "false"
           /\ calls[i].wroteExit = ~NonzeroExitCode(calls[i].exitBefore)
           /\ calls[i].exitAfter = IF NonzeroExitCode(calls[i].exitBefore)
                                   THEN calls[i].exitBefore ELSE {1}

C6_Witness ==
  \E i \in Calls :
    /\ ~calls[i].passed /\ ExecuteSettled(i)
    /\ calls[i].wroteExit /\ processExitCode = {1}

----------------------------------------------------------------------------
(* Parsing and dispatch *)

\* C7: for an empty argument vector execute() resolves to true, top-level help
\* is printed, no action body is invoked and selectedAction stays unset.
C7_EmptyArgsPrintHelp ==
  \A i \in Calls :
    (calls[i].passed /\ GivenVector(i) = <<>>) =>
      /\ calls[i].inner = "resolved"
      /\ calls[i].outLines = <<Line("none", HelpText)>>
      /\ selectedAction = {}
      /\ Happened("body") = {}
      /\ ExecuteSettled(i) => calls[i].outer = "true"

C7_Witness ==
  \E i \in Calls :
    /\ calls[i].passed /\ ~calls[i].given /\ GivenVector(i) = <<>>
    /\ calls[i].outer = "true"
    /\ stdout = <<Line("none", HelpText)>>

\* C8: the selected action's body is invoked only after, in this order, the
\* global parsed values were populated, selectedAction was assigned to that
\* action and that action's parsed values were injected.
C8_BodyAfterInjection ==
  \A k \in Happened("body") :
    LET a == trace[k].inst
    IN  /\ \E g, s, j \in 1..Len(trace) :
             /\ g < s /\ s < j /\ j < k
             /\ trace[g].ev = "globals"
             /\ trace[s] = Event("select", a)
             /\ trace[j] = Event("inject", a)
        /\ parserData # {}
        /\ selectedAction = {a}
        /\ actionData[a] # {}

C8_Witness ==
  /\ Happened("body") # {}
  /\ \E i \in Calls : calls[i].inner = "resolved"

GrammarRejection == Fault("exit", 2, GrammarMessage)

\* C10: for an input the grammar rejects with a nonzero exit signal, execute()
\* resolves to false, the exit code is nonzero afterwards, an error message is
\* written to standard error, selectedAction stays unset and no action body is
\* invoked.
C10_GrammarRejection ==
  \A i \in Calls :
    (calls[i].passed /\ calls[i].fault = GrammarRejection) =>
      /\ selectedAction = {}
      /\ Happened("body") = {}
      /\ IsExecute(i) => calls[i].outer \in {"pending", "false"}
      /\ ExecuteSettled(i) =>
           /\ calls[i].outer = "false"
           /\ NonzeroExitCode(calls[i].exitAfter)
           /\ processExitCode = calls[i].exitAfter
           /\ calls[i].errLines = <<Line("none", GrammarMessage)>>

\* The required parameter of greet omitted
C10_Witness ==
  \E i \in Calls :
    /\ calls[i].passed /\ calls[i].given /\ calls[i].args = <<"greet">>
    /\ "greet" \in Choices
    /\ calls[i].fault = GrammarRejection
    /\ calls[i].outer = "false"
    /\ processExitCode = {2}

----------------------------------------------------------------------------
(* The exit code on success and on failure *)

\* C11: an execute() call that resolves to true (help request, empty
\* arguments or a completed action body) leaves the process exit code as it
\* was before the call: its success callback assigns nothing, and unless the
\* handler of another call on the same parser assigned the code, the code is
\* still the one found when the call was made; an unset code stays unset.
C11_SuccessLeavesExitCode ==
  \A i \in Calls :
    calls[i].outer = "true" =>
      /\ ~calls[i].wroteExit
      /\ calls[i].exitAfter = calls[i].exitBefore
      /\ (\A j \in Calls \ {i} : ~calls[j].wroteExit) =>
            processExitCode = calls[i].exitAtCall

C11_Witness ==
  \E i \in Calls :
    /\ calls[i].outer = "true"
    /\ Happened("body") # {}
    /\ calls[i].exitAtCall = Unset
    /\ processExitCode = Unset

\* C14: whenever execute() resolves to false the process exit code is nonzero
\* afterwards: every exit signal that reaches the rejection handler carries a
\* nonzero exit code.
C14_FalseMeansNonzeroExitCode ==
  \A i \in Calls :
    calls[i].outer = "false" =>
      /\ NonzeroExitCode(calls[i].exitAfter)
      /\ calls[i].innerErr.type = "exit" => calls[i].innerErr.exitCode # 0

----------------------------------------------------------------------------
(* The action registry: addAction, getAction, tryGetAction *)

\* tryGetAction(actionName): this._actionsByName.get(actionName)
tryGetAction(actionName) == actionsByName[actionName]

\* The throw left out
getAction_NoThrow(actionName) ==
  [result |-> tryGetAction(actionName), raised |-> FALSE]

\* getAction(actionName): if (!action) throw new Error(...)
getAction(actionName) ==
  [result |-> tryGetAction(actionName), raised |-> tryGetAction(actionName) = {}]

\* A lookup, with the registry as it was when the lookup was made
Lookup(op, actionName, result, raised) ==
  [op |-> op, name |-> actionName, result |-> result, raised |-> raised,
   before |-> actions]

GetAction(actionName) ==
  /\ lookup' = Lookup("getAction", actionName, getAction(actionName).result,
                      getAction(actionName).raised)
  /\ UNCHANGED <<parserVars, utilityVars, enumVars>>

TryGetAction(actionName) ==
  /\ lookup' = Lookup("tryGetAction", actionName, tryGetAction(actionName), FALSE)
  /\ UNCHANGED <<parserVars, utilityVars, enumVars>>

NextRegistry ==
  \/ (\E name \in ActionNames : AddAction(name)) /\ UNCHANGED <<lookupVars, utilityVars, enumVars>>
  \/ \E name \in ActionNames : GetAction(name)
  \/ \E name \in ActionNames : TryGetAction(name)

SpecRegistry == Init /\ [][NextRegistry]_vars

Unique(names) ==
  \A i, j \in 1..Len(names) : i # j => names[i] # names[j]

\* C12: addAction rejects a name that is already registered, so after any
\* sequence of addAction calls the names of the ordered registry are pairwise
\* distinct.
C12_NamesDistinct == Unique(actions)

\* C13: after addAction calls with unique names, getAction(name) and
\* tryGetAction(name) return the registered instance of every registered name;
\* for an unregistered name getAction raises and tryGetAction returns
\* undefined; and no lookup changes the registry.
C13_LookupState ==
  (lookup.op # "none" /\ Unique(lookup.before)) =>
    LET registered == {i \in 1..Len(lookup.before) : lookup.before[i] = lookup.name}
    IN  IF registered # {}
        THEN lookup.result = registered /\ ~lookup.raised
        ELSE lookup.result = {} /\ (lookup.raised <=> lookup.op = "getAction")

C13_Lookups ==
  /\ []C13_LookupState
  /\ [][lookup' # lookup => (actions' = actions /\ actionsByName' = actionsByName)]_vars

C13_Witness ==
  /\ lookup.op = "tryGetAction"
  /\ lookup.before = <<"greet", "build">>
  /\ lookup.name = "build"
  /\ lookup.result = {2}

\* C16: once an execution entry point has been called, the action registry
\* (the ordered list and the by-name lookup) is never mutated again.
C16_RegistryFixedAfterExecute ==
  [][executed => (actions' = actions /\ actionsByName' = actionsByName)]_vars

\* C20: the ordered registry and the by-name lookup agree: for every name the
\* instance tryGetAction returns is the one dispatch selects, and every action
\* of the list is reachable by its name.
C20_RegistryAgrees ==
  /\ \A name \in ActionNames : tryGetAction(name) = FindAction(name)
  /\ \A i \in 1..Len(actions) : tryGetAction(actions[i]) = {i}

----------------------------------------------------------------------------
(* The lifecycle of the parser *)

\* The reactions of execute() are microtasks: once queued they run
ThenReaction == ExecuteThen /\ ParserOnly
CatchReaction == ExecuteCatch /\ ParserOnly

FairSpec == Spec /\ WF_vars(ThenReaction) /\ WF_vars(CatchReaction)

\* The call whose execution the parser is in: the last one let through
PassedCalls == {i \in Calls : calls[i].passed}
Current == CHOOSE i \in PassedCalls : \A j \in PassedCalls : j <= i

\* The lifecycle state, read off the parser and the promise of its execution.
\* Parsing and Dispatching lie inside the synchronous part of the call; the
\* trace keeps their steps.
Phase ==
  IF PassedCalls = {} THEN "Defined"
  ELSE IF calls[Current].inner = "pending" THEN "Running"
  ELSE IF calls[Current].inner = "resolved" THEN "Succeeded"
  ELSE "Failed"

Terminal(phase) == phase \in {"Succeeded", "Failed"}

PhaseRank(phase) ==
  CASE phase = "Defined" -> 0
    [] phase = "Running" -> 3
    [] OTHER -> 4

StepRank(ev) ==
  CASE ev = "parseArgs" -> 1
    [] ev = "globals" -> 1
    [] ev = "select" -> 2
    [] ev = "inject" -> 2
    [] OTHER -> 3

\* The action body ran and completed without raising
BodyCompleted ==
  /\ PassedCalls # {}
  /\ Happened("body") # {}
  /\ calls[Current].inner = "resolved"
  /\ calls[Current].fault = NoFault

\* The execution ended as a success before or without the body completing:
\* empty arguments, or a zero-exit signal caught by the catch block
EarlySuccess ==
  /\ PassedCalls # {}
  /\ calls[Current].inner = "resolved"
  /\ \/ Happened("parseArgs") = {} /\ GivenVector(Current) = <<>>
     \/ IsSuccessfulExit(calls[Current].fault)

\* C15 as stated, its part on Succeeded: Succeeded is reached exactly when the
\* action body completed without raising.
C15_SucceededIffBodyCompleted == (Phase = "Succeeded") <=> BodyCompleted

\* Steps are taken in the order of the lifecycle and none twice; Running is
\* entered only from Dispatching, once the action's values are injected
C15_Forward ==
  /\ \A k \in 1..(Len(trace) - 1) :
       /\ StepRank(trace[k].ev) <= StepRank(trace[k + 1].ev)
       /\ trace[k].ev # trace[k + 1].ev
  /\ \A ev \in {"parseArgs", "globals", "select", "inject", "body"} :
       Cardinality(Happened(ev)) <= 1
  /\ Phase = "Running" =>
       /\ Len(trace) >= 2
       /\ trace[Len(trace)].ev = "body"
       /\ trace[Len(trace) - 1].ev = "inject"
  /\ Phase = "Defined" <=> ~executed
  /\ (Phase = "Succeeded") <=> (BodyCompleted \/ EarlySuccess)

\* C15 (amended): the lifecycle only moves forward along Defined -> Parsing ->
\* Dispatching -> Running -> {Succeeded, Failed}: no state is revisited, a
\* terminal state is never left, Running is entered only from Dispatching,
\* Succeeded is reached when the action body completed without raising and
\* also when the execution ended early as a success (empty arguments, or a
\* zero-exit signal such as help caught by the catch block), and once the
\* promise of the execution has settled every execute() call reaches its
\* result.
C15_Lifecycle ==
  /\ []C15_Forward
  /\ [][/\ PhaseRank(Phase') >= PhaseRank(Phase)
        /\ Terminal(Phase) => Phase' = Phase]_vars
  /\ \A i \in 1..(MaxCalls + 1) :
       (i \in Calls /\ IsExecute(i) /\ InnerSettled(i)) ~> (i \in Calls /\ ExecuteSettled(i))

C15_Witness ==
  /\ Phase = "Succeeded"
  /\ BodyCompleted
  /\ IsExecute(Current)
  /\ calls[Current].outer = "true"

----------------------------------------------------------------------------
(* Utilities.executeCommand *)

\* result.error of a spawnSync call: undefined, or an Error with the system
\* error's code; its errno is the code as a string on the Node versions the
\* workaround was written for and a number on later ones
NoError == [code |-> "none", errno |-> "none"]
SpawnErrors ==
  {[code |-> "ENOENT", errno |-> "ENOENT"], [code |-> "ENOENT", errno |-> "-2"],
   [code |-> "EACCES", errno |-> "EACCES"]}
SpawnResults == {NoError} \cup SpawnErrors

Commands == {<<"npm">>, <<"git">>}

\* The test written with a guard for a result without error
IsENOENT_Guarded(err) == [raised |-> FALSE, value |-> err.errno = "ENOENT"]

\* Line 136: (result.error as any).errno === 'ENOENT'; reading errno of an
\* undefined result.error raises a TypeError
IsENOENT(err) ==
  IF err = NoError THEN [raised |-> TRUE, value |-> FALSE]
  ELSE [raised |-> FALSE, value |-> err.errno = "ENOENT"]

\* Lines 124-146, first and second being what the two spawnSync calls report
executeCommand(cmd, first, second) ==
  LET test == IsENOENT(first)
      retried == ~test.raised /\ test.value
      result == IF retried THEN second ELSE first
  IN  [pc |-> "done",
       command |-> cmd,
       spawned |-> IF retried THEN <<cmd, cmd \o <<".cmd">>>> ELSE <<cmd>>,
       errors |-> IF retried THEN <<first, second>> ELSE <<first>>,
       raised |-> IF test.raised THEN "TypeError"
                  ELSE IF result # NoError THEN result.code
                  ELSE "none"]

ExecuteCommand(cmd, first, second) ==
  /\ command.pc = "idle"
  /\ command' = executeCommand(cmd, first, second)
  /\ UNCHANGED <<parserVars, lookupVars, folder, enumVars>>

\* C17: executeCommand first runs the bare command; only if that attempt fails
\* with ENOENT does it run the '.cmd' variant; it returns without raising
\* whenever the attempt it ends on reported no error, and raises the spawn
\* error otherwise.
C17_ExecuteCommand ==
  command.pc = "done" =>
    LET last == command.errors[Len(command.errors)]
    IN  /\ command.spawned[1] = command.command
        /\ Len(command.spawned) = 2 =>
             /\ command.errors[1].code = "ENOENT"
             /\ command.spawned[2] = command.command \o <<".cmd">>
        /\ last = NoError => command.raised = "none"
        /\ last # NoError => command.raised = last.code

----------------------------------------------------------------------------
(* Utilities.createFolderWithRetry *)

\* const maxWaitTimeMs: number = 7 * 1000
maxWaitTimeMs == 7 * 1000

\* How long a mkdirSync attempt takes, in ms: the clock advances
Durations == {1000, 3000}

\* >= written for >
TimedOut_AtLeast(elapsed) == elapsed >= maxWaitTimeMs

\* if (currentTime - startTime > maxWaitTimeMs)
TimedOut(elapsed) == elapsed > maxWaitTimeMs

\* Lines 46-49: the call
CreateFolderWithRetry ==
  /\ folder.pc = "idle"
  /\ folder' = [folder EXCEPT !.pc = "loop", !.startTime = folder.now]
  /\ UNCHANGED <<parserVars, lookupVars, command, enumVars>>

\* Lines 50-67: one turn of the loop; ok is whether mkdirSync succeeds and d
\* the time it takes.  After a success the loop is left and the stall is
\* logged if an attempt had failed.
Attempt(ok, d) ==
  /\ folder.pc = "loop"
  /\ LET currentTime == folder.now + d
         elapsed == currentTime - folder.startTime
     IN  folder' =
           IF ok
           THEN [folder EXCEPT !.pc = "returned", !.now = currentTime,
                               !.succeeded = TRUE,
                               !.log = IF folder.looped THEN <<elapsed>> ELSE <<>>]
           ELSE [folder EXCEPT !.pc = IF TimedOut(elapsed) THEN "raised" ELSE "loop",
                               !.now = currentTime, !.looped = TRUE,
                               !.failed = folder.failed + 1, !.elapsed = elapsed]
  /\ UNCHANGED <<parserVars, lookupVars, command, enumVars>>

MkdirAttempt == \E ok \in BOOLEAN, d \in Durations : Attempt(ok, d)

NextUtilities ==
  \/ \E cmd \in Commands, first \in SpawnResults, second \in SpawnResults :
       ExecuteCommand(cmd, first, second)
  \/ CreateFolderWithRetry
  \/ MkdirAttempt

SpecUtilities == Init /\ [][NextUtilities]_vars

\* mkdirSync returns or throws: the loop goes on
FairSpecUtilities == SpecUtilities /\ WF_vars(MkdirAttempt)

C18_State ==
  /\ folder.pc = "returned" => folder.succeeded
  /\ folder.pc = "raised" =>
       /\ ~folder.succeeded
       /\ folder.failed > 0
       /\ folder.elapsed > maxWaitTimeMs
  /\ (folder.pc = "loop" /\ folder.failed > 0) => folder.elapsed <= maxWaitTimeMs
  /\ folder.pc = "returned" => (folder.log # <<>> <=> folder.failed > 0)
  /\ folder.pc # "returned" => folder.log = <<>>

\* C18: createFolderWithRetry returns only after a mkdir attempt succeeded,
\* raises only after an attempt failed with more than the maximum wait time
\* elapsed since the start, and otherwise retries after every failed attempt;
\* as the clock advances it always terminates; and it logs the stall message
\* exactly when an attempt failed before the success.
C18_CreateFolderWithRetry ==
  /\ []C18_State
  /\ [][(folder.pc = "loop" /\ folder'.failed > folder.failed
           /\ folder'.elapsed <= maxWaitTimeMs) => folder'.pc = "loop"]_vars
  /\ (folder.pc = "loop") ~> (folder.pc \in {"returned", "raised"})

C18_Witness ==
  /\ folder.pc = "returned"
  /\ folder.failed >= 2
  /\ folder.log # <<>>

----------------------------------------------------------------------------
(* ApiEnum.addMember *)

ItemKinds == {"EnumMember", "Function", "Enum"}
MemberNames == {"Small", "Medium", "Large"}
Members == [kind : ItemKinds, name : MemberNames]

\* The container of the mixin: a member whose container key is taken is
\* refused, any other is appended
superAddMember(list, member) ==
  IF \E i \in 1..Len(list) : list[i].name = member.name
  THEN [members |-> list, raised |-> TRUE]
  ELSE [members |-> Append(list, member), raised |-> FALSE]

\* Every kind let through
IsEnumMember_Any(member) == TRUE

\* member.kind !== ApiItemKind.EnumMember, negated
IsEnumMember(member) == member.kind = "EnumMember"

\* Lines 68-74
addMember(list, member) ==
  IF ~IsEnumMember(member)
  THEN [members |-> list, raised |-> TRUE]
  ELSE superAddMember(list, member)

AddMember(member) ==
  /\ members' = addMember(members, member).members
  /\ added' = [kind |-> member.kind, name |-> member.name,
               raised |-> addMember(members, member).raised]
  /\ UNCHANGED <<parserVars, lookupVars, utilityVars>>

NextEnum == \E member \in Members : AddMember(member)

SpecEnum == Init /\ [][NextEnum]_vars

\* C19: after any sequence of addMember calls every member of the enum has
\* kind EnumMember; addMember raises for a member of any other kind and
\* leaves the member list unchanged in that case.
C19_OnlyEnumMembers ==
  /\ [](\A i \in 1..Len(members) : members[i].kind = "EnumMember")
  /\ []((added # NoAdded /\ added.kind # "EnumMember") => added.raised)
  /\ [][added'.raised => members' = members]_vars

C19_Witness ==
  /\ Len(members) >= 2
  /\ added.kind = "Function"
  /\ added.raised

====
